---- MODULE Spec2Model ----
(***************************************************************************)
(* sqlalchemy_hooks.events: the EventListener chain, the register() proxy  *)
(* for synthetic events and the {before,after}_* helpers, run against the  *)
(* event dispatch of SQLAlchemy (listen / once / hook firing).             *)
(***************************************************************************)
EXTENDS Integers, Sequences, FiniteSets, TLC

\* ------------------------------------------------------------------ bounds
\* Operations on an applied listener per behaviour: hook firings, and
\* chain() and __call__ calls made after the first __call__.
MaxFires == 4
\* Stages a chain may declare (len(self.targets)).
MaxStages == 2

\* ---------------------------------------------------------------- universe
\* Dispatch targets: mapped classes and sessions; Objects are the instances a
\* mapper hook is fired for, each owned by one session.
Mappers == {"A", "B"}
Sessions == {"S1", "S2"}
Objects == {"o1", "o2"}

object_session(o) == IF o = "o1" THEN "S1" ELSE "S2"

\* The part of the catalog the model fires: sa.orm.events.MapperEvents and
\* SessionEvents, and the four synthetic names.
MapperHooks ==
    {"before_insert", "after_insert", "before_update", "after_update",
     "before_delete", "after_delete"}
SessionHooks == {"before_flush", "after_flush_postexec"}
SyntheticEvents == {"after_save", "before_save", "before_touch", "after_touch"}

\* The keys of the catalog dict `events`.
events == MapperHooks \cup SessionHooks \cup SyntheticEvents

\* The targets SessionEvents accepts: sessions and the sessionmaker.
SessionTargets == Sessions \cup {"sessionmaker"}

\* What sa.event.listen(target, identifier, fn) raises, "none" if it installs
\* the listener. It raises InvalidRequestError ("No such event ... for
\* target ...") when no event class declaring the identifier accepts the
\* target: for an identifier it does not know, and for a session hook on a
\* target that is no session (a mapped class). MapperEvents accepts every
\* target that is not a class, so a mapper hook on a session fails later, on
\* the session's dispatcher, which has no such hook: AttributeError.
ListenError(target, hook) ==
    IF hook \notin MapperHooks \cup SessionHooks THEN "InvalidRequestError"
    ELSE IF hook \in SessionHooks /\ target \notin SessionTargets
    THEN "InvalidRequestError"
    ELSE IF hook \in MapperHooks /\ target \notin Mappers
    THEN "AttributeError"
    ELSE "none"

ListenRaises(target, hook) == ListenError(target, hook) # "none"

\* EventInfo.callback_args of an event of the catalog.
callback_args(event) ==
    IF event \in MapperHooks \cup SyntheticEvents
    THEN <<"mapper", "connection", "target">>
    ELSE IF event = "before_flush"
    THEN <<"session", "flush_context", "instances">>
    ELSE <<"session", "flush_context">>

\* register() with after_save bound to after_delete as well.
ExpandMutant(event) ==
    IF event = "after_save"
    THEN <<"after_insert", "after_update", "after_delete">>
    ELSE IF event = "before_save" THEN <<"before_insert", "before_update">>
    ELSE IF event = "after_touch"
    THEN <<"after_insert", "after_update", "after_delete">>
    ELSE IF event = "before_touch"
    THEN <<"before_insert", "before_update", "before_delete">>
    ELSE <<event>>

\* register() with the second hook of after_save misspelt.
ExpandMisspelt(event) ==
    IF event = "after_save" THEN <<"after_insert", "after_updated">>
    ELSE IF event = "before_save" THEN <<"before_insert", "before_update">>
    ELSE IF event = "after_touch"
    THEN <<"after_insert", "after_update", "after_delete">>
    ELSE IF event = "before_touch"
    THEN <<"before_insert", "before_update", "before_delete">>
    ELSE <<event>>

\* The primitive hooks register() binds for an event name, in listen order.
Expand(event) ==
    IF event = "after_save" THEN <<"after_insert", "after_update">>
    ELSE IF event = "before_save" THEN <<"before_insert", "before_update">>
    ELSE IF event = "after_touch"
    THEN <<"after_insert", "after_update", "after_delete">>
    ELSE IF event = "before_touch"
    THEN <<"before_insert", "before_update", "before_delete">>
    ELSE <<event>>

Range(s) == {s[k] : k \in 1..Len(s)}

\* ------------------------------------------------------------------- state
VARIABLES
    targets,      \* self.targets: sequence of [target, event]
    conditions,   \* self.conditions: one condition per stage, "none" for None
    use_kwargs,   \* self.use_kwargs
    once,         \* self.once
    func,         \* self.func, "none" until the listener is applied
    lists,        \* the arg_accum list objects, by identity
    closures,     \* the closure objects made so far, by identity
    subs,         \* the dispatch registry: what sa.event.listen has installed
    regs,         \* the direct register(target, event, cb) calls made
    calls,        \* invocations of the user callback made by the last operation
    ncalls,       \* invocations of the user callback (since the last reset_mock)
    ran,          \* the closures the last operation invoked, in order
    raised,       \* the exception the last operation propagated, or "none"
    nfires,       \* hook firings so far
    last,         \* the last operation and its arguments
    helper,       \* test: the helper under test, "" before it is chosen
    pc,           \* test: position in test_basic_mapper_event_listeners
    phase,        \* test: 1 insert, 2 update, 3 delete
    new,          \* test: db.new
    dirty,        \* test: db.dirty
    deleted,      \* test: db.deleted
    order         \* the order in which a set of instances iterates

listener == <<targets, conditions, use_kwargs, once, func>>
dispatch == <<lists, closures, subs, calls, ncalls, ran, raised>>
test == <<helper, pc, phase, new, dirty, deleted, order>>
vars == <<listener, dispatch, regs, nfires, last, test>>

\* A deferred target is named by its resolver: the helpers' object_session,
\* or a user's resolver that raises.
Resolvers == {"object_session", "raising_resolver"}
IsDeferred(target) == target \in Resolvers

\* What target(*args) raises, "none" if it returns: the user's resolver
\* raises its own exception; the helpers' lambda takes three arguments, so
\* a call with the two of a session hook is a TypeError.
ResolveRaises(resolver, args) ==
    IF resolver = "raising_resolver" THEN "UserError"
    ELSE IF Len(args) # 3 THEN "TypeError"
    ELSE "none"

\* DefferredTarget(lambda conn, mapper, target: sa.orm.object_session(target))
\* called with the just-fired arguments.
Resolve(resolver, args) == object_session(args[3])

\* The user conditions the model draws from, applied positionally; the
\* condition "raises" is a user's condition that raises.
Conditions == {"none", "last_is_o1"}
EvalCondition(condition, args) ==
    IF condition = "last_is_o1"
    THEN args # <<>> /\ args[Len(args)] = "o1"
    ELSE TRUE

\* self._get_kwargs(args): every evt of self.targets is the event NAME (a
\* str), so evt.callback_args raises AttributeError as soon as zip draws the
\* first name; self.targets is never empty.
GetKwargs(args) ==
    [raised |-> IF Len(targets) > 0 THEN "AttributeError" ELSE "none",
     kwargs |-> <<>>]

\* _condition_met that takes every condition for met.
ConditionMetMutant(i, args) == [raised |-> "none", val |-> TRUE]

\* _condition_met that swallows what a condition raises.
ConditionMetSwallows(i, args) ==
    LET condition == conditions[i]
    IN  IF condition = "none" THEN [raised |-> "none", val |-> TRUE]
        ELSE IF use_kwargs
        THEN [raised |-> GetKwargs(args).raised, val |-> FALSE]
        ELSE IF condition = "raises"
        THEN [raised |-> "none", val |-> FALSE]
        ELSE [raised |-> "none", val |-> EvalCondition(condition, args)]

\* self._condition_met(i, args)
ConditionMet(i, args) ==
    LET condition == conditions[i]
    IN  IF condition = "none" THEN [raised |-> "none", val |-> TRUE]
        ELSE IF use_kwargs
        THEN [raised |-> GetKwargs(args).raised, val |-> FALSE]
        ELSE IF condition = "raises"
        THEN [raised |-> "UserError", val |-> FALSE]
        ELSE [raised |-> "none", val |-> EvalCondition(condition, args)]

\* The part of the state one operation threads through its calls.
Heap == [subs |-> subs, closures |-> closures, lists |-> lists,
         calls |-> <<>>, ran |-> <<>>, raised |-> "none"]

\* register() that drops the once flag.
registerMutant(st, target, event, fn, once_) ==
    LET hooks == Expand(event)
        new_ == [k \in 1..Len(hooks) |->
                   [target |-> target, hook |-> hooks[k], fn |-> fn,
                    once |-> FALSE, spent |-> FALSE]]
    IN  [st EXCEPT !.subs = @ \o new_]

\* register(target, event, func, once=once): one sa.event.listen per
\* primitive hook, each with its own once state (sqlalchemy.util.only_once).
\* The listen calls are made in order: one that raises ends register().
register(st, target, event, fn, once_) ==
    LET hooks == Expand(event)
        new_ == [k \in 1..Len(hooks) |->
                   [target |-> target, hook |-> hooks[k], fn |-> fn,
                    once |-> once_, spent |-> FALSE]]
        bad == {k \in 1..Len(hooks) : ListenRaises(target, hooks[k])}
        n == IF bad = {} THEN Len(hooks)
             ELSE (CHOOSE k \in bad : \A j \in bad : k <= j) - 1
    IN  [st EXCEPT !.subs = @ \o SubSeq(new_, 1, n),
                   !.raised = IF bad = {} THEN @
                              ELSE ListenError(target, hooks[n + 1])]

\* The closure objects. Beside what the closure holds (i, and the list object
\* acc), a closure records where it comes from: parent, the closure that made
\* it (0: __call__); born, the firing during which it was made (0: made by
\* __call__); snap, the content of its list when it was made; stages, the
\* length of self.targets when it was made; seen, the arguments of the
\* firings of its own attempt, in order.

\* self._wrapper_callback(arg_accum)
WrapperCallback(acc, origin) ==
    [kind |-> "wrapper", i |-> 0, acc |-> acc] @@ origin

\* self._register_callback(i, arg_accum)
RegisterCallback(i, acc, origin) ==
    [kind |-> "register", i |-> i, acc |-> acc] @@ origin

\* self._get_callback(i, arg_accum): "arg_accum or []" keeps a non-empty
\* list object and replaces None or an empty list by a new list. Stages are
\* numbered from 1 in the model: i here is the source's i + 1. The closure
\* made is the last of the result's closures.
GetCallback(st, i, acc, from) ==
    LET fresh == acc = 0 \/ st.lists[acc] = <<>>
        st1 == IF fresh THEN [st EXCEPT !.lists = Append(@, <<>>)] ELSE st
        a == IF fresh THEN Len(st1.lists) ELSE acc
        origin == [snap |-> st1.lists[a], stages |-> Len(targets)] @@ from
        do_execute == i >= Len(targets) + 1
        c == IF do_execute THEN WrapperCallback(a, origin)
             ELSE RegisterCallback(i, a, origin)
    IN  [st1 EXCEPT !.closures = Append(@, c)]

\* The orders a set of instances may iterate in: the wrappers walk Python
\* sets, whose order the language leaves open.
Orders ==
    {s \in [1..Cardinality(Objects) -> Objects] : Range(s) = Objects}

\* for instance in <set>: the members of S in the order the set iterates.
SetToSeq(S) == SelectSeq(order, LAMBDA x : x \in S)

\* before_update and before_save walking session.new only.
HelperInstancesMutant(h) ==
    IF h = "before_insert" THEN new
    ELSE IF h = "before_update" THEN new
    ELSE IF h = "before_delete" THEN deleted
    ELSE IF h = "before_save" THEN new
    ELSE new \cup dirty \cup deleted

\* The instances the wrapper of a before_* helper walks: session.new,
\* session.dirty, session.deleted or their union.
HelperInstances(h) ==
    IF h = "before_insert" THEN new
    ELSE IF h = "before_update" THEN dirty
    ELSE IF h = "before_delete" THEN deleted
    ELSE IF h = "before_save" THEN new \cup dirty
    ELSE new \cup dirty \cup deleted

\* One invocation of the user's callback.
CallRecord(fn, args, kwargs, seen, fired) ==
    [fn |-> fn, args |-> args, kwargs |-> kwargs, seen |-> seen,
     fired |-> fired]

\* self.func(*all_args): the user's callback itself (one that returns or one
\* that raises), or the wrapper a before_* helper decorates, which calls the
\* user's callback once per instance with (session, flush_context,
\* instances, instance).
CallFunc(st, fn, all_args, kwargs, fired) ==
    LET seen == st.closures[fn].seen
    IN  IF func = "callback"
        THEN [st EXCEPT !.calls =
                 Append(@, CallRecord(fn, all_args, kwargs, seen, fired))]
        ELSE IF func = "raising_callback"
        THEN [st EXCEPT !.calls =
                 Append(@, CallRecord(fn, all_args, kwargs, seen, fired)),
                        !.raised = "UserError"]
        ELSE LET insts == SetToSeq(HelperInstances(func))
             IN  [st EXCEPT !.calls = @ \o
                     [k \in 1..Len(insts) |->
                        CallRecord(fn, all_args \o <<insts[k]>>, kwargs,
                                   seen, fired)]]

\* wrapper(*args) of _wrapper_callback.
WrapperCall(st, fn, args) ==
    LET c == st.closures[fn]
        all_args == st.lists[c.acc] \o args
        kw == GetKwargs(all_args)
    IN  IF use_kwargs
        THEN IF kw.raised # "none" THEN [st EXCEPT !.raised = kw.raised]
             ELSE CallFunc(st, fn, <<>>, kw.kwargs, args)
        ELSE CallFunc(st, fn, all_args, <<>>, args)

\* _register that evaluates the condition before it appends the arguments.
RegisterCallEarlyCondition(st, fn, args) ==
    LET c == st.closures[fn]
        i == c.i
        st1 == [st EXCEPT !.lists[c.acc] = @ \o args]
        met == ConditionMet(i, st.lists[c.acc])
    IN  IF met.raised # "none" THEN [st1 EXCEPT !.raised = met.raised]
        ELSE IF ~met.val THEN st1
        ELSE IF IsDeferred(targets[i].target)
                /\ ResolveRaises(targets[i].target, args) # "none"
        THEN [st1 EXCEPT !.raised = ResolveRaises(targets[i].target, args)]
        ELSE LET stage == targets[i]
                 target == IF IsDeferred(stage.target)
                           THEN Resolve(stage.target, args)
                           ELSE stage.target
                 once_ == once \/ i > 1
                 st2 == GetCallback(st1, i + 1, c.acc,
                            [parent |-> fn,
                             born |-> IF i = 1 THEN 0 ELSE nfires + 1,
                             seen |-> c.seen \o args])
             IN  register(st2, target, stage.event, Len(st2.closures), once_)

\* _register that resolves a deferred target with the accumulated arguments.
RegisterCallResolveAccumulated(st, fn, args) ==
    LET c == st.closures[fn]
        i == c.i
        st1 == [st EXCEPT !.lists[c.acc] = @ \o args]
        met == ConditionMet(i, st1.lists[c.acc])
    IN  IF met.raised # "none" THEN [st1 EXCEPT !.raised = met.raised]
        ELSE IF ~met.val THEN st1
        ELSE IF IsDeferred(targets[i].target)
                /\ ResolveRaises(targets[i].target, args) # "none"
        THEN [st1 EXCEPT !.raised = ResolveRaises(targets[i].target, args)]
        ELSE LET stage == targets[i]
                 target == IF IsDeferred(stage.target)
                           THEN Resolve(stage.target, st1.lists[c.acc])
                           ELSE stage.target
                 once_ == once \/ i > 1
                 st2 == GetCallback(st1, i + 1, c.acc,
                            [parent |-> fn,
                             born |-> IF i = 1 THEN 0 ELSE nfires + 1,
                             seen |-> c.seen \o args])
             IN  register(st2, target, stage.event, Len(st2.closures), once_)

\* _register(*args) of _register_callback.
RegisterCall(st, fn, args) ==
    LET c == st.closures[fn]
        i == c.i
        st1 == [st EXCEPT !.lists[c.acc] = @ \o args]
        met == ConditionMet(i, st1.lists[c.acc])
    IN  IF met.raised # "none" THEN [st1 EXCEPT !.raised = met.raised]
        ELSE IF ~met.val THEN st1
        ELSE IF IsDeferred(targets[i].target)
                /\ ResolveRaises(targets[i].target, args) # "none"
        THEN [st1 EXCEPT !.raised = ResolveRaises(targets[i].target, args)]
        ELSE LET stage == targets[i]
                 target == IF IsDeferred(stage.target)
                           THEN Resolve(stage.target, args)
                           ELSE stage.target
                 once_ == once \/ i > 1
                 st2 == GetCallback(st1, i + 1, c.acc,
                            [parent |-> fn,
                             born |-> IF i = 1 THEN 0 ELSE nfires + 1,
                             seen |-> c.seen \o args])
             IN  register(st2, target, stage.event, Len(st2.closures), once_)

\* A listener is a chain closure or, registered directly, the user's cb.
Invoke(st, fn, args) ==
    LET st1 == [st EXCEPT !.ran = Append(@, fn)]
        kind == st.closures[fn].kind
    IN  IF kind = "wrapper" THEN WrapperCall(st1, fn, args)
        ELSE IF kind = "register" THEN RegisterCall(st1, fn, args)
        ELSE [st1 EXCEPT !.calls =
                 Append(@, CallRecord(fn, args, <<>>, <<>>, args))]

\* A session made by the sessionmaker runs the listeners of the sessionmaker
\* (class level) before its own.
Parent(target) == IF target \in Sessions THEN "sessionmaker" ELSE ""

\* Listeners found by hook alone, whatever target they were registered on.
ListeningOnAnyTarget(target, hook) ==
    SelectSeq([k \in 1..Len(subs) |-> k], LAMBDA k: subs[k].hook = hook)

\* The listeners registered on target for hook, in registration order.
ListeningOn(target, hook) ==
    SelectSeq([k \in 1..Len(subs) |-> k],
              LAMBDA k: subs[k].target = target /\ subs[k].hook = hook)

\* The listeners a firing of hook on target runs, in order.
Listening(target, hook) ==
    ListeningOn(Parent(target), hook) \o ListeningOn(target, hook)

\* The dispatch of one hook firing: every listener installed when the firing
\* starts is called in order; a once listener is spent before it runs; an
\* exception ends the firing. The listeners of a target and hook are a deque
\* the firing iterates: a listener that registers on that same target and
\* hook leaves its subscription installed, and the iteration raises
\* RuntimeError (deque mutated during iteration) when the listener returns.
RECURSIVE RunListeners(_, _, _)
RunListeners(st, idxs, args) ==
    IF idxs = <<>> \/ st.raised # "none" THEN st
    ELSE LET k == Head(idxs)
             s == st.subs[k]
         IN  IF s.spent THEN RunListeners(st, Tail(idxs), args)
             ELSE LET st1 == IF s.once
                             THEN [st EXCEPT !.subs[k].spent = TRUE]
                             ELSE st
                      st2 == Invoke(st1, s.fn, args)
                      grown == \E n \in (Len(st1.subs) + 1)..Len(st2.subs) :
                                   /\ st2.subs[n].target = s.target
                                   /\ st2.subs[n].hook = s.hook
                      st3 == IF st2.raised = "none" /\ grown
                             THEN [st2 EXCEPT !.raised = "RuntimeError"]
                             ELSE st2
                  IN  RunListeners(st3, Tail(idxs), args)

\* The state an operation leaves.
Commit(st) ==
    /\ subs' = st.subs
    /\ closures' = st.closures
    /\ lists' = st.lists
    /\ calls' = st.calls
    /\ ncalls' = ncalls + Len(st.calls)
    /\ ran' = st.ran
    /\ raised' = st.raised

Op(op, hook, target, args) ==
    [op |-> op, hook |-> hook, target |-> target, args |-> args]

\* ----------------------------------------------------------------- actions
\* The stages .chain() is given.
StageChoices ==
    {[target |-> "B", event |-> "after_update"],
     [target |-> "B", event |-> "after_save"],
     [target |-> "S1", event |-> "after_flush_postexec"],
     [target |-> "object_session", event |-> "after_flush_postexec"]}

\* The chain() calls made since the listener was applied.
LateChains ==
    IF func # "none" THEN Len(targets) - closures[1].stages ELSE 0

\* The __call__ calls made on the listener: each makes one closure of its
\* own (parent 0).
Applications ==
    IF func = "none" THEN 0
    ELSE Cardinality({c \in 1..Len(closures) : closures[c].parent = 0})

\* The operations MaxFires bounds: the firings, and the chain() and
\* __call__ calls made on a listener already applied.
Operations ==
    IF func = "none" THEN nfires
    ELSE nfires + LateChains + (Applications - 1)

\* EventListener.chain(target, event, condition): any stage, before or after
\* the listener is applied.
Chain(stage, condition) ==
    /\ pc = "free"
    /\ Len(targets) < MaxStages
    /\ Operations < MaxFires
    /\ targets' = Append(targets, stage)
    /\ conditions' = Append(conditions, condition)
    /\ last' = Op("chain", stage.event, stage.target, <<>>)
    /\ raised' = "none"
    /\ calls' = <<>>
    /\ ran' = <<>>
    /\ UNCHANGED <<use_kwargs, once, func, lists, closures, subs, ncalls,
                   regs, nfires, test>>

\* EventListener.__call__(func): self.func = func; self._get_callback(0)().
\* A listener may be applied again: self.func is overwritten, and a second
\* stage-0 closure is registered beside the first.
CallWith(f) ==
    /\ func # "none" => Operations < MaxFires
    /\ func' = f
    /\ LET st1 == GetCallback(Heap, 1, 0,
                             [parent |-> 0, born |-> 0, seen |-> <<>>])
           st2 == RegisterCall(st1, Len(st1.closures), <<>>)
       IN  Commit(st2)
    /\ last' = Op("call", "", "", <<>>)
    /\ UNCHANGED <<targets, conditions, use_kwargs, once, regs, nfires>>

Call ==
    /\ pc = "free"
    /\ CallWith("callback")
    /\ UNCHANGED test

\* The dispatch system fires hook on target with args.
Dispatch(hook, target, args) ==
    /\ nfires' = nfires + 1
    /\ Commit(RunListeners(Heap, Listening(target, hook), args))
    /\ last' = Op("fire", hook, target, args)
    /\ UNCHANGED <<listener, regs>>

Fire(hook, target, args) ==
    /\ pc = "free"
    /\ func # "none" \/ regs # <<>>
    /\ Operations < MaxFires
    /\ Dispatch(hook, target, args)
    /\ UNCHANGED test

\* The mapper hooks the stages of the model listen for; a firing of one of
\* them on a mapper no stage names is the firing nothing listens for.
FiredMapperHooks == {"after_insert", "after_update"}

FireMapper ==
    \E hook \in FiredMapperHooks, m \in Mappers, o \in Objects :
        Fire(hook, m, <<m, "conn", o>>)

FireSession ==
    \E s \in Sessions : Fire("after_flush_postexec", s, <<s, "ctx">>)

\* EventListener.remove(): `identifier` is no name of the module or of the
\* method, so the first sa.event.remove(target, identifier, ...) raises
\* NameError while its arguments are evaluated; nothing is removed.
Remove ==
    /\ pc = "free"
    /\ func # "none"
    /\ last.op # "remove"
    /\ raised' = IF Len(targets) > 0 THEN "NameError" ELSE "none"
    /\ calls' = <<>>
    /\ ran' = <<>>
    /\ last' = Op("remove", "", "", <<>>)
    /\ UNCHANGED <<listener, lists, closures, subs, ncalls, regs, nfires,
                   test>>

NoDispatch ==
    /\ lists = <<>>
    /\ closures = <<>>
    /\ subs = <<>>
    /\ regs = <<>>
    /\ calls = <<>>
    /\ ncalls = 0
    /\ ran = <<>>
    /\ raised = "none"
    /\ nfires = 0
    /\ last = Op("init", "", "", <<>>)

NoTest ==
    /\ helper = ""
    /\ pc = "free"
    /\ phase = 0
    /\ new = {}
    /\ dirty = {}
    /\ deleted = {}
    /\ order = <<>>

\* EventListener(target, event, use_kwargs=..., once=...)
Init ==
    /\ \E event \in {"after_insert", "after_save"} :
           targets = <<[target |-> "A", event |-> event]>>
    /\ conditions = <<"none">>
    /\ use_kwargs \in BOOLEAN
    /\ once \in BOOLEAN
    /\ func = "none"
    /\ NoDispatch
    /\ NoTest

Next ==
    \/ \E stage \in StageChoices, condition \in Conditions :
           Chain(stage, condition)
    \/ Call
    \/ FireMapper
    \/ FireSession
    \/ Remove

Spec == Init /\ [][Next]_vars

\* ------------------------------------------- register() called directly
\* The user's cb as a listener of its own.
PlainCallback ==
    [kind |-> "plain", i |-> 0, acc |-> 0, parent |-> 0, born |-> 0,
     snap |-> <<>>, stages |-> 0, seen |-> <<>>]

\* register(target, event, cb, once=once_) from the caller's code.
Register(target, event, once_) ==
    /\ pc = "free"
    /\ regs = <<>>
    /\ regs' = <<[target |-> target, event |-> event, once |-> once_]>>
    /\ LET st1 == [Heap EXCEPT !.closures = Append(@, PlainCallback)]
       IN  Commit(register(st1, target, event, Len(st1.closures), once_))
    /\ last' = Op("register", event, target, <<>>)
    /\ UNCHANGED <<listener, nfires, test>>

FireAnyMapper ==
    \E hook \in MapperHooks, m \in Mappers, o \in Objects :
        Fire(hook, m, <<m, "conn", o>>)

\* No EventListener: only the dispatch system and register().
InitRegister ==
    /\ targets = <<>>
    /\ conditions = <<>>
    /\ use_kwargs = FALSE
    /\ once = FALSE
    /\ func = "none"
    /\ NoDispatch
    /\ NoTest

\* events[name] from the caller's code: a dict lookup.
Lookup(name) ==
    /\ pc = "free"
    /\ last.op # "lookup"
    /\ raised' = IF name \in events THEN "none" ELSE "KeyError"
    /\ calls' = <<>>
    /\ ran' = <<>>
    /\ last' = Op("lookup", name, "", <<>>)
    /\ UNCHANGED <<listener, lists, closures, subs, ncalls, regs, nfires,
                   test>>

\* Names that are keys of neither table.
UnknownNames == {"after_commit_all"}

NextRegister ==
    \/ \E target \in Mappers,
          event \in SyntheticEvents \cup MapperHooks \cup UnknownNames,
          once_ \in BOOLEAN : Register(target, event, once_)
    \/ \E name \in {"after_save", "after_insert"} \cup UnknownNames :
           Lookup(name)
    \/ FireAnyMapper
    \/ FireSession

SpecRegister == InitRegister /\ [][NextRegister]_vars

\* ------------------------------------------------- three-stage listeners
\* EventListener(A, e0).chain(s1, c1).chain(s2, c2), in either mode.
ThreeStageChains ==
    {[target |-> "A", event |-> "after_insert"]}
        \X StageChoices \X StageChoices

InitDeep ==
    /\ targets \in ThreeStageChains
    /\ \E c1 \in Conditions, c2 \in Conditions :
           conditions = <<"none", c1, c2>>
    /\ use_kwargs \in BOOLEAN
    /\ once \in BOOLEAN
    /\ func = "none"
    /\ NoDispatch
    /\ NoTest

NextDeep ==
    \/ Call
    \/ FireMapper
    \/ FireSession

SpecDeep == InitDeep /\ [][NextDeep]_vars

\* ------------------------------------------ user functions that may raise
RaiseStages ==
    {[target |-> "object_session", event |-> "after_flush_postexec"],
     [target |-> "raising_resolver", event |-> "after_flush_postexec"]}

\* EventListener(A, "after_insert").chain(resolver, e1, condition)
InitRaise ==
    /\ \E stage \in RaiseStages :
           targets = <<[target |-> "A", event |-> "after_insert"], stage>>
    /\ \E condition \in {"none", "raises"} :
           conditions = <<"none", condition>>
    /\ use_kwargs = FALSE
    /\ once \in BOOLEAN
    /\ func = "none"
    /\ NoDispatch
    /\ NoTest

CallRaising ==
    /\ pc = "free"
    /\ CallWith("raising_callback")
    /\ UNCHANGED test

NextRaise ==
    \/ Call
    \/ CallRaising
    \/ FireMapper
    \/ FireSession

SpecRaise == InitRaise /\ [][NextRaise]_vars

\* ------------------------------------- listeners built in one expression
\* EventListener(A, e0) and EventListener(A, e0).chain(s1, c1).
InitBuilt ==
    /\ \E event \in {"after_insert", "after_save"} :
           \/ /\ targets = <<[target |-> "A", event |-> event]>>
              /\ conditions = <<"none">>
           \/ \E stage \in StageChoices, condition \in Conditions :
                  /\ targets = <<[target |-> "A", event |-> event], stage>>
                  /\ conditions = <<"none", condition>>
    /\ use_kwargs \in BOOLEAN
    /\ once \in BOOLEAN
    /\ func = "none"
    /\ NoDispatch
    /\ NoTest

\* l.chain(B, "after_update", condition) on the built listener, before or
\* after it is applied.
MoreStage == [target |-> "B", event |-> "after_update"]

ChainMore ==
    \E condition \in Conditions : Chain(MoreStage, condition)

NextBuilt ==
    \/ ChainMore
    \/ Call
    \/ FireMapper
    \/ FireSession
    \/ Remove

SpecBuilt == InitBuilt /\ [][NextBuilt]_vars

\* ------------------------------------ test_basic_mapper_event_listeners
Helpers ==
    {"before_insert", "after_insert", "before_update", "after_update",
     "before_delete", "after_delete", "before_save", "after_save",
     "before_touch", "after_touch"}
BeforeHelpers ==
    {"before_insert", "before_update", "before_delete", "before_save",
     "before_touch"}

\* The listener a helper builds: before_*(model, session) listens for
\* before_flush on the session fixture (the sessionmaker); after_*(model) is
\* EventListener(model, "after_*").chain(DefferredTarget(object_session),
\* "after_flush_postexec").
HelperTargets(h) ==
    IF h \in BeforeHelpers
    THEN <<[target |-> "sessionmaker", event |-> "before_flush"]>>
    ELSE <<[target |-> "A", event |-> h],
           [target |-> "object_session", event |-> "after_flush_postexec"]>>

\* event_listener = event_listener(Foo, session)
TestHelper(h) ==
    /\ pc = "setup"
    /\ helper' = h
    /\ targets' = HelperTargets(h)
    /\ conditions' = [k \in 1..Len(HelperTargets(h)) |-> "none"]
    /\ pc' = "helper"
    /\ last' = Op("helper", h, "", <<>>)
    /\ UNCHANGED <<use_kwargs, once, func, dispatch, regs, nfires, phase,
                   new, dirty, deleted, order>>

\* event_listener(callback): a before_* helper applies the EventListener to
\* its own wrapper around callback, an after_* helper to callback itself.
TestApply ==
    /\ pc = "helper"
    /\ CallWith(IF helper \in BeforeHelpers THEN helper ELSE "callback")
    /\ pc' = "ready"
    /\ phase' = 1
    /\ UNCHANGED <<helper, new, dirty, deleted, order>>

\* callback.reset_mock() and db.add(foo) / foo.name = "bar" / db.delete(foo)
TestChange ==
    /\ pc = "ready"
    /\ new' = IF phase = 1 THEN {"o1"} ELSE {}
    /\ dirty' = IF phase = 2 THEN {"o1"} ELSE {}
    /\ deleted' = IF phase = 3 THEN {"o1"} ELSE {}
    /\ order' \in Orders
    /\ ncalls' = 0
    /\ calls' = <<>>
    /\ ran' = <<>>
    /\ raised' = "none"
    /\ pc' = "changed"
    /\ last' = Op("change", "", "", <<>>)
    /\ UNCHANGED <<listener, lists, closures, subs, regs, nfires, helper,
                   phase>>

\* db.commit() flushes: before_flush on the session, the mapper hooks of the
\* row written, the session's sets emptied, after_flush_postexec.
RowKind ==
    IF new # {} THEN "insert" ELSE IF dirty # {} THEN "update" ELSE "delete"

FlushBefore ==
    /\ pc = "changed"
    /\ Dispatch("before_flush", "S1", <<"S1", "ctx", "None">>)
    /\ pc' = "before_row"
    /\ UNCHANGED <<helper, phase, new, dirty, deleted, order>>

FlushBeforeRow ==
    /\ pc = "before_row"
    /\ Dispatch("before_" \o RowKind, "A", <<"A", "conn", "o1">>)
    /\ pc' = "after_row"
    /\ UNCHANGED <<helper, phase, new, dirty, deleted, order>>

FlushAfterRow ==
    /\ pc = "after_row"
    /\ Dispatch("after_" \o RowKind, "A", <<"A", "conn", "o1">>)
    /\ new' = {}
    /\ dirty' = {}
    /\ deleted' = {}
    /\ pc' = "postexec"
    /\ UNCHANGED <<helper, phase, order>>

FlushPostexec ==
    /\ pc = "postexec"
    /\ Dispatch("after_flush_postexec", "S1", <<"S1", "ctx">>)
    /\ pc' = IF phase = 3 THEN "done" ELSE "ready"
    /\ phase' = phase + 1
    /\ UNCHANGED <<helper, new, dirty, deleted, order>>

InitTest ==
    /\ targets = <<>>
    /\ conditions = <<>>
    /\ use_kwargs = FALSE
    /\ once = FALSE
    /\ func = "none"
    /\ NoDispatch
    /\ helper = ""
    /\ pc = "setup"
    /\ phase = 0
    /\ new = {}
    /\ dirty = {}
    /\ deleted = {}
    /\ order \in Orders

NextTest ==
    \/ \E h \in Helpers : TestHelper(h)
    \/ TestApply
    \/ TestChange
    \/ FlushBefore
    \/ FlushBeforeRow
    \/ FlushAfterRow
    \/ FlushPostexec

SpecTest == InitTest /\ [][NextTest]_vars

\* ------------------------------------------------------------------ claims
\* The firing the last operation was, if it fired stage k's hook on target.
FiredStage(k, target) ==
    /\ last.op = "fire"
    /\ last.target = target
    /\ last.hook \in Range(Expand(targets[k].event))

Applied == func # "none"

\* The listener was applied once, with all its stages: neither chain() nor
\* __call__ has been called since (chain() on an applied listener lengthens
\* self.targets under the closures already made; a second __call__ replaces
\* self.func and registers a second stage-0 closure).
Built ==
    /\ Applied
    /\ Applications = 1
    /\ closures[1].stages = Len(targets)

\* C1: for the two-stage chain EventListener(A, e0).chain(DefferredTarget(r),
\* e1) applied to f, a firing of e0 on A does not invoke f; f is invoked only
\* by a firing of e1 on r(args1), and then with exactly args1 followed by the
\* arguments of that firing.
C1_TwoStageDeferredChain ==
    (Built /\ ~use_kwargs /\ Len(targets) = 2
        /\ IsDeferred(targets[2].target)) =>
        /\ FiredStage(1, targets[1].target) => calls = <<>>
        /\ \A k \in 1..Len(calls) :
              /\ FiredStage(2, Resolve(targets[2].target, calls[k].seen))
              /\ calls[k].args = calls[k].seen \o last.args

\* The parts of C1 that do not depend on what the accumulator holds.
C1_OnlyWhenLastStageFires ==
    (Built /\ ~use_kwargs /\ Len(targets) = 2
        /\ IsDeferred(targets[2].target)) =>
        /\ FiredStage(1, targets[1].target) => calls = <<>>
        /\ \A k \in 1..Len(calls) :
              FiredStage(2, Resolve(targets[2].target, calls[k].seen))

\* C2: with once=False no attempt shares its accumulator: every invocation
\* of the callback receives the arguments of the firings of its own attempt,
\* in order, and nothing else.
C2_IndependentAccumulators ==
    (Built /\ ~once /\ ~use_kwargs) =>
        \A k \in 1..Len(calls) :
            calls[k].args = calls[k].seen \o calls[k].fired

\* C1, C2: a reachable state where the callback got the arguments of two
\* stage-0 firings at once.
SharedAccumulatorSeen ==
    /\ ~once /\ ~use_kwargs
    /\ \E k \in 1..Len(calls) :
           Len(calls[k].args) > Len(calls[k].seen) + Len(calls[k].fired)

\* C3: the operations (1 insert, 2 update, 3 delete) whose commit invokes
\* the callback of a helper.
HelperPhases(h) ==
    IF h \in {"before_insert", "after_insert"} THEN {1}
    ELSE IF h \in {"before_update", "after_update"} THEN {2}
    ELSE IF h \in {"before_delete", "after_delete"} THEN {3}
    ELSE IF h \in {"before_save", "after_save"} THEN {1, 2}
    ELSE {1, 2, 3}

\* C3: for each helper, over add+commit, modify+commit, delete+commit, the
\* callback is not invoked before the commit, and it is invoked during the
\* commit if and only if the operation is one of the helper's.
C3_HelperCalledOnItsOperations ==
    /\ pc = "changed" => ncalls = 0
    /\ (pc \in {"ready", "done"} /\ phase > 1) =>
           (ncalls > 0 <=> (phase - 1) \in HelperPhases(helper))

C3_Witness ==
    /\ pc = "ready" /\ phase = 3
    /\ helper = "before_save"
    /\ ncalls > 0

\* C4: the hooks a directly registered event name stands for.
BoundHooks(event) ==
    IF event = "after_save" THEN {"after_insert", "after_update"}
    ELSE IF event = "before_save" THEN {"before_insert", "before_update"}
    ELSE IF event = "after_touch"
    THEN {"after_insert", "after_update", "after_delete"}
    ELSE IF event = "before_touch"
    THEN {"before_insert", "before_update", "before_delete"}
    ELSE {event}

\* C4: after register(target, event, cb), every firing on target of a hook
\* the event stands for calls cb exactly once with the firing's arguments,
\* and no other firing calls cb.
C4_CompositeIsOr ==
    (regs # <<>> /\ ~regs[1].once /\ last.op = "fire") =>
        IF last.target = regs[1].target
            /\ last.hook \in BoundHooks(regs[1].event)
        THEN Len(calls) = 1 /\ calls[1].args = last.args
        ELSE calls = <<>>

C4_Witness ==
    /\ regs # <<>> /\ ~regs[1].once
    /\ regs[1].event = "after_save"
    /\ nfires = 3
    /\ last.op = "fire" /\ last.hook = "after_update"
    /\ last.target = regs[1].target
    /\ Len(calls) = 1 /\ ncalls = 2

\* C5: a closure made by a _register whose stage has a condition was made
\* with the condition true of the accumulated arguments.
MadeWithConditionMet(fn) ==
    LET c == closures[fn]
    IN  (c.parent # 0 /\ conditions[closures[c.parent].i] # "none") =>
            EvalCondition(conditions[closures[c.parent].i], c.snap)

\* C5: when a stage's condition is false of the accumulated arguments, no
\* subscription is installed and the callback is not invoked for the attempt:
\* every subscription and every callback invocation belongs to an attempt
\* whose conditions were true, and a firing whose _register evaluated its
\* condition to false makes no closure.
C5_FalseConditionAborts ==
    /\ \A fn \in 1..Len(closures) : MadeWithConditionMet(fn)
    /\ \A k \in 1..Len(subs) : MadeWithConditionMet(subs[k].fn)
    /\ \A k \in 1..Len(calls) : MadeWithConditionMet(calls[k].fn)

\* A firing ran a _register whose condition was false: nothing was made.
C5_Witness ==
    /\ ~use_kwargs /\ last.op = "fire" /\ raised = "none"
    /\ \E j \in 1..Len(ran) :
          /\ closures[ran[j]].kind = "register"
          /\ conditions[closures[ran[j]].i] = "last_is_o1"
          /\ last.args[3] = "o2"
          /\ ~\E fn \in 1..Len(closures) :
                 closures[fn].parent = ran[j] /\ closures[fn].born = nfires
    /\ calls = <<>>

\* The subscriptions of the stages after the first, and the live ones.
Tails == {k \in 1..Len(subs) : closures[subs[k].fn].born > 0}
LiveTails == {k \in Tails : ~subs[k].spent}
Hit(target, hook) ==
    {k \in LiveTails : subs[k].target = target /\ subs[k].hook = hook}

\* The attempts whose stage-0 firing passed its condition (closure 2 is the
\* stage-0 listener).
PassedAttempts == {fn \in 1..Len(closures) : closures[fn].parent = 2}

RECURSIVE StageNames(_)
StageNames(k) ==
    IF k = 0 THEN <<>>
    ELSE StageNames(k - 1) \o callback_args(targets[k].event)

ZipKwargs(names, values) ==
    [k \in 1..(IF Len(names) < Len(values) THEN Len(names) ELSE Len(values))
        |-> <<names[k], values[k]>>]

\* C7: in keyword mode a final closure that runs invokes the callback with
\* the zipped keyword arguments.
C7_KeywordInvocation ==
    (Built /\ use_kwargs /\ last.op = "fire") =>
        \A j \in 1..Len(ran) :
            closures[ran[j]].kind = "wrapper" =>
                \E k \in 1..Len(calls) :
                    /\ calls[k].fn = ran[j]
                    /\ calls[k].kwargs =
                           ZipKwargs(StageNames(Len(targets)),
                                     closures[ran[j]].seen \o last.args)

\* C8: once remove() has been called, a firing of the stage-0 hook on the
\* stage-0 target runs nothing of the chain and does not invoke the callback.
C8_RemoveUnsubscribes ==
    [][(Built /\ last.op = "remove" /\ last'.op = "fire"
        /\ last'.target = targets[1].target
        /\ last'.hook \in Range(Expand(targets[1].event)))
       => (ran' = <<>> /\ calls' = <<>>)]_vars

\* C9: a chain created with once=True reacts to at most one stage-0 firing,
\* and its callback is invoked at most once in total.
C9_OnceStartsOneAttempt ==
    (Built /\ once) =>
        /\ Cardinality({k \in 1..Len(subs) :
               closures[subs[k].fn].born = 0 /\ subs[k].spent}) <= 1
        /\ ncalls <= 1

\* C10: the callback is invoked at most once per attempt: the number of
\* invocations never exceeds the number of stage-0 firings whose conditions
\* passed.
C10_OneInvocationPerAttempt ==
    (Built /\ Len(targets) > 1) => ncalls <= Cardinality(PassedAttempts)

\* C11: the arguments of the j-th firing of an attempt, cut out of the
\* arguments of the attempt's firings by the stages' declared arities.
Group(args, j) ==
    SubSeq(args, Len(StageNames(j - 1)) + 1, Len(StageNames(j)))

\* C11: group j of args is what a firing of stage j's hook passes: as many
\* values as the stage's event declares, the first one the target it fired
\* on (the stage's target, or a session where the target is deferred).
StageGroup(args, j) ==
    /\ Len(args) >= Len(StageNames(j))
    /\ IF IsDeferred(targets[j].target)
       THEN Group(args, j)[1] \in Sessions
       ELSE Group(args, j)[1] = targets[j].target

\* C11: a chain with N stages invokes its callback only on a firing of stage
\* N's hook, after the attempt's firings of stages 1..N-1 in stage order, and
\* the callback receives exactly these N argument groups, in stage order.
C11_NFiringsInStageOrder ==
    (Built /\ ~use_kwargs /\ last.op = "fire") =>
        \A k \in 1..Len(calls) :
            /\ last.hook \in Range(Expand(targets[Len(targets)].event))
            /\ Len(calls[k].seen) = Len(StageNames(Len(targets) - 1))
            /\ Len(calls[k].args) = Len(StageNames(Len(targets)))
            /\ \A j \in 1..Len(targets) : StageGroup(calls[k].args, j)
            /\ calls[k].args = calls[k].seen \o last.args

\* The part of C11 that does not depend on what the accumulator holds: the
\* callback runs on a firing of the last stage's hook, for an attempt whose
\* own firings were one per earlier stage, in stage order.
C11_FiringsInStageOrder ==
    (Built /\ ~use_kwargs /\ last.op = "fire") =>
        \A k \in 1..Len(calls) :
            /\ last.hook \in Range(Expand(targets[Len(targets)].event))
            /\ Len(calls[k].seen) = Len(StageNames(Len(targets) - 1))
            /\ \A j \in 1..(Len(targets) - 1) : StageGroup(calls[k].seen, j)

\* What a firing does to a chain with no appended stage, as C12 has it: a
\* firing of the stage-0 hook on the stage-0 target invokes the callback
\* exactly once, with exactly the arguments of that firing; any other firing
\* invokes nothing; and the only subscriptions there ever are are the
\* stage-0 ones, never spent.
PlainListener ==
    /\ FiredStage(1, targets[1].target) =>
          /\ Len(calls) = 1
          /\ calls[1].args = last.args
          /\ raised = "none"
    /\ (last.op = "fire" /\ ~FiredStage(1, targets[1].target)) =>
          calls = <<>>
    /\ Len(subs) = Len(Expand(targets[1].event))
    /\ \A k \in 1..Len(subs) :
          /\ subs[k].target = targets[1].target
          /\ subs[k].hook = Expand(targets[1].event)[k]
          /\ ~subs[k].spent

\* C12 (as stated): a chain with no appended stage, once=False, applied to
\* one callback, behaves as a plain single-hook listener, in either mode.
C12_SingleStageIsPlainListener ==
    (Built /\ Len(targets) = 1 /\ ~once) => PlainListener

\* C12, in positional mode only: there the chain is a plain listener.
C12_PositionalSingleStage ==
    (Built /\ Len(targets) = 1 /\ ~once /\ ~use_kwargs) => PlainListener

\* C12: the second firing of the stage-0 hook, with other arguments than the
\* first, has invoked the callback with its own arguments.
C12_Witness ==
    /\ Built /\ Len(targets) = 1 /\ ~once /\ ~use_kwargs
    /\ FiredStage(1, targets[1].target)
    /\ ncalls = 2
    /\ calls = <<CallRecord(2, last.args, <<>>, <<>>, last.args)>>
    /\ last.args[3] = "o2"

\* C13: right after __call__(func) returns, the subscriptions it has added
\* are the new stage-0 closure on the stage-0 target, one per primitive hook
\* of the stage-0 event, unspent; func has not been invoked and nothing was
\* raised. When the listener is applied for the first time these are all
\* the subscriptions: there is no later-stage closure or subscription.
C13_CallRegistersStageZeroOnly ==
    last.op = "call" =>
        LET hooks == BoundHooks(targets[1].event)
            added == {k \in 1..Len(subs) : subs[k].fn = Len(closures)}
        IN  /\ Cardinality(added) = Cardinality(hooks)
            /\ {subs[k].hook : k \in added} = hooks
            /\ \A k \in added :
                  /\ k > Len(subs) - Cardinality(hooks)
                  /\ subs[k].target = targets[1].target
                  /\ subs[k].once = once
                  /\ ~subs[k].spent
            /\ closures[Len(closures)].parent = Len(closures) - 1
            /\ closures[Len(closures)].born = 0
            /\ closures[Len(closures) - 1].parent = 0
            /\ calls = <<>> /\ ran = <<>>
            /\ raised = "none"
            /\ Applications = 1 =>
                  /\ Len(subs) = Cardinality(hooks)
                  /\ Len(closures) = 2
                  /\ Tails = {}
                  /\ ncalls = 0

\* C13: a chain with a composite stage-0 event and a further stage has just
\* been applied.
C13_Witness ==
    /\ last.op = "call"
    /\ Applications = 1
    /\ Len(targets) = 2
    /\ targets[1].event = "after_save"
    /\ Len(subs) = 2
    /\ func = "callback"

\* C14 (as stated): looking up or registering a name that is a key of
\* neither table raises UnknownEventError, and installs no subscription.
C14_UnknownEventError ==
    (last.op \in {"register", "lookup"} /\ last.hook \notin events) =>
        /\ raised = "UnknownEventError"
        /\ subs = <<>>

\* C14 (amended): looking such a name up in the catalog raises KeyError;
\* registering it raises the dispatch system's InvalidRequestError, which
\* register() lets through; no subscription is installed.
C14_UnknownNameFails ==
    /\ (last.op = "lookup" /\ last.hook \notin events) =>
           raised = "KeyError"
    /\ (regs # <<>> /\ regs[1].event \notin events) =>
           /\ subs = <<>>
           /\ last.op = "register" => raised = "InvalidRequestError"
           /\ last.op = "fire" => calls = <<>>

\* C14: register() has just been given a name of neither table.
C14_Witness ==
    /\ last.op = "register"
    /\ last.hook \in UnknownNames
    /\ raised = "InvalidRequestError"
    /\ subs = <<>>

\* C15: each composite name is a key of the catalog and register() binds it
\* to at least one hook, every hook bound being a primitive key of the
\* catalog that the dispatch system accepts; any other key of the catalog is
\* bound as itself, once.
C15_CompositeExpandsToPrimitives ==
    /\ SyntheticEvents =
           {"before_save", "after_save", "before_touch", "after_touch"}
    /\ SyntheticEvents \subseteq events
    /\ (regs # <<>> /\ regs[1].event \in SyntheticEvents) =>
           /\ Len(subs) >= 1
           /\ raised # "InvalidRequestError"
           /\ \A k \in 1..Len(subs) :
                 /\ subs[k].hook \in events \ SyntheticEvents
                 /\ subs[k].target = regs[1].target
    /\ (regs # <<>> /\ regs[1].event \in events \ SyntheticEvents) =>
           /\ Len(subs) = 1
           /\ subs[1].hook = regs[1].event
           /\ subs[1].target = regs[1].target

\* C15: a composite name and a primitive name have each been registered.
C15_Witness ==
    /\ last.op = "register"
    /\ last.hook = "before_touch"
    /\ Len(subs) = 3
    /\ raised = "none"

\* The last operation fired stage k's hook on stage k's target (a session,
\* where the target is deferred).
FiredOnStage(k) ==
    /\ last.op = "fire"
    /\ last.hook \in Range(Expand(targets[k].event))
    /\ IF IsDeferred(targets[k].target) THEN last.target \in Sessions
       ELSE last.target = targets[k].target

\* The closures a closure made during the last firing.
MadeNow(fn) ==
    {c \in 1..Len(closures) :
        closures[c].parent = fn /\ closures[c].born = nfires}

\* C16 (as stated): the condition given with stage i is evaluated when stage
\* i's hook fires, against the arguments of the attempt's firings through
\* stage i inclusive.
C16_ConditionSeesOwnStage ==
    (Applied /\ ~use_kwargs /\ last.op = "fire") =>
        \A j \in 1..Len(ran) :
            (closures[ran[j]].kind = "register"
                /\ conditions[closures[ran[j]].i] # "none") =>
                /\ FiredOnStage(closures[ran[j]].i)
                /\ \A c \in MadeNow(ran[j]) :
                      Len(closures[c].seen) =
                          Len(StageNames(closures[ran[j]].i))

\* The last values of list are the arguments just fired.
EndsWithFired(list) ==
    /\ Len(list) >= Len(last.args)
    /\ SubSeq(list, Len(list) - Len(last.args) + 1, Len(list)) = last.args

\* C16 (amended): the condition given with stage i is evaluated when the
\* hook of the stage before it fires, before stage i is subscribed and
\* before stage i's hook has fired for the attempt. The just-fired
\* arguments are appended to the closure's list first, whose last values
\* they then are. Stage i is subscribed exactly when the condition holds of
\* that list (no condition counts as holding) and the stage's deferred
\* target resolves without raising. In keyword mode a condition is never
\* evaluated: building its keyword arguments raises AttributeError and
\* nothing is subscribed. (The conditions of the model read the last value
\* of the list.)
C16_ConditionSeesPreviousStages ==
    (Applied /\ last.op = "fire") =>
        \A j \in 1..Len(ran) :
            closures[ran[j]].kind = "register" =>
                LET i == closures[ran[j]].i
                    list == lists[closures[ran[j]].acc]
                    unbuilt == use_kwargs /\ conditions[i] # "none"
                    holds == \/ conditions[i] = "none"
                             \/ EvalCondition(conditions[i], list)
                    resolves ==
                        IsDeferred(targets[i].target) =>
                            ResolveRaises(targets[i].target, last.args)
                                = "none"
                IN  /\ FiredOnStage(i - 1)
                    /\ EndsWithFired(list)
                    /\ Cardinality(MadeNow(ran[j])) <= 1
                    /\ \A c \in MadeNow(ran[j]) :
                          /\ Len(closures[c].seen) =
                                 Len(StageNames(i - 1))
                          /\ EndsWithFired(closures[c].snap)
                          /\ conditions[i] # "none" =>
                                 EvalCondition(conditions[i],
                                               closures[c].snap)
                          /\ \E k \in 1..Len(subs) : subs[k].fn = c
                    /\ MadeNow(ran[j]) # {}
                           <=> (~unbuilt /\ holds /\ resolves)
                    /\ unbuilt =>
                           /\ raised = "AttributeError"
                           /\ j = Len(ran)

\* C16: in a three-stage chain the condition of the last stage has held on
\* the arguments of the firing of the stage before it, the attempt's earlier
\* firing having carried a value on which it does not hold.
C16_Witness ==
    /\ Applied /\ ~use_kwargs /\ Len(targets) = 3
    /\ conditions[3] = "last_is_o1"
    /\ FiredOnStage(2)
    /\ last.args[Len(last.args)] = "o1"
    /\ \E j \in 1..Len(ran) :
           /\ closures[ran[j]].i = 3
           /\ closures[ran[j]].seen[3] = "o2"
           /\ MadeNow(ran[j]) # {}

\* The stage a subscription listens for: the stage its closure's maker
\* registered.
StageOf(k) == closures[closures[subs[k].fn].parent].i

\* C17: a subscription of a stage with a deferred target is installed on
\* exactly the target the resolver returns for the arguments of the one
\* firing that made it, the firing of the previous stage's hook, whatever
\* the earlier firings of the attempt carried; a subscription of a stage
\* with a concrete target is installed on that target.
C17_ResolverSeesJustFiredArgs ==
    (Applied /\ ~use_kwargs) =>
        \A k \in 1..Len(subs) :
            subs[k].target =
                IF IsDeferred(targets[StageOf(k)].target)
                THEN Resolve(targets[StageOf(k)].target,
                             Group(closures[subs[k].fn].seen, StageOf(k) - 1))
                ELSE targets[StageOf(k)].target

\* C17: in a three-stage chain whose last target is deferred, the last
\* stage is subscribed on the session of the object of the second firing,
\* the first firing having carried an object of the other session.
C17_Witness ==
    /\ Applied /\ ~use_kwargs /\ Len(targets) = 3
    /\ IsDeferred(targets[3].target)
    /\ \E k \in 1..Len(subs) :
           /\ StageOf(k) = 3
           /\ closures[subs[k].fn].seen[3] = "o1"
           /\ closures[subs[k].fn].seen[6] = "o2"
           /\ subs[k].target = "S2"

\* C18: the user function a closure calls when it runs raises.
UserRaises(fn) ==
    IF closures[fn].kind = "wrapper" THEN func = "raising_callback"
    ELSE \/ conditions[closures[fn].i] = "raises"
         \/ targets[closures[fn].i].target = "raising_resolver"

\* C18: what a user condition, resolver or callback raises comes out of the
\* firing as it is, and ends the firing; a listener whose condition or
\* resolver raised has made no closure and no subscription, and the firing
\* has not invoked the callback; with once=False the stage-0 subscription
\* is never spent, and every firing of the stage-0 hook runs it.
C18_UserExceptionsPropagate ==
    (Applied /\ ~use_kwargs) =>
        /\ last.op = "fire" =>
              \A j \in 1..Len(ran) :
                  UserRaises(ran[j]) =>
                      /\ raised = "UserError"
                      /\ j = Len(ran)
                      /\ closures[ran[j]].kind = "register" =>
                            /\ MadeNow(ran[j]) = {}
                            /\ calls = <<>>
                            /\ \A k \in 1..Len(subs) :
                                  closures[subs[k].fn].born # nfires
        /\ ~once =>
              /\ \A k \in 1..Len(subs) :
                    closures[subs[k].fn].born = 0 => ~subs[k].spent
              /\ FiredOnStage(1) => (ran # <<>> /\ ran[1] = 2)

\* C18: with once=False, the second firing of the stage-0 hook has run the
\* stage-0 listener again, the first one having ended in the resolver's
\* exception; the only subscription is the stage-0 one.
C18_Witness ==
    /\ Applied /\ ~once /\ ~use_kwargs
    /\ conditions[2] = "none"
    /\ targets[2].target = "raising_resolver"
    /\ FiredOnStage(1)
    /\ nfires = 2
    /\ Len(lists[closures[2].acc]) = 6
    /\ ran = <<2>>
    /\ raised = "UserError"
    /\ Len(subs) = 1
    /\ calls = <<>>

\* C19: no step removes a subscription, and a live tail is left as it is by
\* every step but a firing of its hook on its target, which spends it:
\* further stage-0 firings, aborted attempts, other attempts completing on
\* other targets and remove() leave it registered.
C19_TailStaysUntilItsHookFires ==
    [][/\ Len(subs') >= Len(subs)
       /\ \A k \in LiveTails :
             \/ subs'[k] = subs[k]
             \/ /\ last'.op = "fire"
                /\ last'.target = subs[k].target
                /\ last'.hook = subs[k].hook
                /\ subs'[k] = [subs[k] EXCEPT !.spent = TRUE]]_vars

\* C19: a tail installed by the first firing is still live after three more
\* firings, one of which completed another attempt.
C19_Witness ==
    /\ Applied /\ ~once
    /\ nfires = 4
    /\ ncalls >= 1
    /\ \E k \in LiveTails : closures[subs[k].fn].born = 1

====
